---- MODULE Spec2Model ----
(***************************************************************************)
(* State-machine model of the neural-network quantum state sampler:       *)
(*   Nqs (nqs.cc), Sampler (sampler.cc), Heisenberg1d (heisenberg1d.cc),  *)
(*   Heisenberg2d (unnamed/part_000), Ising1d (unnamed/part_001).         *)
(*                                                                         *)
(* Conventions.                                                            *)
(*  - C++ vectors that the code indexes (state, a_, b_, W_, Lt_, nn_) are  *)
(*    functions on 0..n-1, so that indices are the source's indices.      *)
(*  - C++ vectors that the code grows with push_back/resize (mel, flipsh, *)
(*    bonds_, flips) are TLA+ sequences: entry k of the source is entry   *)
(*    k+1 of the sequence.                                                *)
(*  - The wave-function parameters are integers (imaginary part zero), so *)
(*    every sum the code forms in double arithmetic is exact.  For a      *)
(*    real argument lncosh(complex) is lncosh(real) + log(1) (nqs.cc      *)
(*    209-217), which is what LnCosh models, in fixed point.              *)
(*  - Logarithms of amplitudes are fixed-point integers in units of       *)
(*    1/Scale.  A non-negative real r is kept as its logarithm: the value *)
(*    exp(x/Scale) is the record [zero |-> FALSE, log |-> x], and 0 is    *)
(*    [zero |-> TRUE, log |-> 0].                                          *)
(***************************************************************************)
EXTENDS Integers, Sequences, FiniteSets, TLC

VARIABLES
  pc,            \* position in the program: see the actions
  hamiltonian_,  \* Sampler::hamiltonian_ : the Hamiltonian object (a record)
  wf_,           \* Sampler::wf_ : the Nqs parameters nv_, nh_, a_, b_, W_
  Lt_,           \* Nqs::Lt_ : look-up table
  state_,        \* Sampler::state_
  flips_,        \* Sampler::flips_
  accept_,       \* Sampler::accept_
  nmoves_,       \* Sampler::nmoves_
  mel_,          \* Sampler::mel_ : output container of FindConn
  flipsh_,       \* Sampler::flipsh_ : output container of FindConn
  energy_size,   \* energy_.size()
  en,            \* the last value pushed on energy_ (MeasureEnergy's en)
  writestates_,  \* Sampler::writestates_
  filestates_,   \* number of lines written to filestates_
  acceptance,    \* Move's local: the acceptance value it last computed
  uniform,       \* the value of Uniform() in Move's Metropolis-Hastings test
  estimator,     \* OutputEnergy's blocksize and the reads energy_[j] it made
  run            \* Run's parameters and locals: nsweeps, thermfactor,
                 \* sweepfactor, nflips, n, i, and the counts of sweeps done

vars == <<pc, hamiltonian_, wf_, Lt_, state_, flips_, accept_, nmoves_, mel_,
          flipsh_, energy_size, en, writestates_, filestates_, acceptance, uniform,
          estimator, run>>

(***************************************************************************)
(* Generic helpers for the C++ containers.                                 *)
(***************************************************************************)

\* std::vector::resize(n, fill) on a sequence
Resize(s, n, fill) ==
  IF Len(s) >= n THEN SubSeq(s, 1, n)
  ELSE s \o [k \in 1..(n - Len(s)) |-> fill]

\* the spin configurations of n sites
Configs(n) == [0..(n-1) -> {-1, 1}]

RECURSIVE SumFrom(_, _, _)
\* sum of f[k] for k = lo..hi (0 when hi < lo)
SumFrom(f, lo, hi) == IF hi < lo THEN 0 ELSE f[hi] + SumFrom(f, lo, hi - 1)

(***************************************************************************)
(* Heisenberg1d                                                            *)
(***************************************************************************)

\* matrix element of the spin-exchange term, pushed by both Heisenberg variants
ExchangeMel == -2

\* BondFlippable with the comparison inverted
BondFlippableMutant(state, si, sj) == state[si] = state[sj]

\* the test guarding each off-diagonal entry: the two spins of a bond differ
BondFlippable(state, si, sj) == state[si] # state[sj]

\* Heisenberg1d::Heisenberg1d
Heisenberg1dNew(nspins, jz, pbc) ==
  [kind |-> "Heisenberg1d", nspins_ |-> nspins, pbc_ |-> pbc, jz_ |-> jz]

\* the interaction part Sz*Sz of Heisenberg1d::FindConn, before the factor jz_
Heisenberg1dSzSz(h, state) ==
  SumFrom([i \in 0..(h.nspins_ - 2) |-> state[i] * state[i+1]], 0, h.nspins_ - 2)
  + (IF h.pbc_ THEN state[h.nspins_ - 1] * state[0] ELSE 0)

RECURSIVE Heisenberg1dFlips(_, _, _, _)
\* the loop "Looks for possible spin flips" from site i on; out = [mel, flipsh]
Heisenberg1dFlips(h, state, i, out) ==
  IF i >= h.nspins_ - 1 THEN out
  ELSE Heisenberg1dFlips(h, state, i + 1,
         IF BondFlippable(state, i, i + 1)
         THEN [mel |-> Append(out.mel, ExchangeMel),
               flipsh |-> Append(out.flipsh, <<i, i + 1>>)]
         ELSE out)

\* Heisenberg1d::FindConn(state, flipsh, mel): the containers after the call
Heisenberg1dFindConn(h, state, flipsh, mel) ==
  LET mel1 == [Resize(mel, 1, 0) EXCEPT ![1] = h.jz_ * Heisenberg1dSzSz(h, state)]
      out1 == Heisenberg1dFlips(h, state, 0,
                [mel |-> mel1, flipsh |-> Resize(flipsh, 1, <<>>)])
  IN IF h.pbc_ /\ BondFlippable(state, h.nspins_ - 1, 0)
     THEN [mel |-> Append(out1.mel, ExchangeMel),
           flipsh |-> Append(out1.flipsh, <<h.nspins_ - 1, 0>>)]
     ELSE out1

(***************************************************************************)
(* Heisenberg2d                                                            *)
(***************************************************************************)

\* int l_ = std::sqrt(nspins_): the square root truncated towards zero
ISqrt(n) == CHOOSE l \in 0..n : l * l <= n /\ (l + 1) * (l + 1) > n

\* Heisenberg2d::PbcH
PbcH(nn, s, l) ==
  IF s % l = 0 /\ nn = s - 1 THEN s + l - 1
  ELSE IF (s + 1) % l = 0 /\ nn = s + 1 THEN s - l + 1
  ELSE nn

\* Heisenberg2d::PbcV
PbcV(nn, nspins) ==
  IF nn >= nspins THEN nn - nspins
  ELSE IF nn < 0 THEN nspins + nn
  ELSE nn

\* Heisenberg2d::H
H(nn, s, l) ==
  IF s % l = 0 /\ nn = s - 1 THEN -1
  ELSE IF (s + 1) % l = 0 /\ nn = s + 1 THEN -1
  ELSE nn

\* Heisenberg2d::V
V(nn, nspins) ==
  IF nn >= nspins THEN -1
  ELSE IF nn < 0 THEN -1
  ELSE nn

\* the nearest-neighbour table nn_ built by InitLattice (entries k = 0..3 are
\* entries 1..4 of the sequence)
Neighbours(nspins, l, pbc) ==
  [i \in 0..(nspins - 1) |->
     << IF pbc THEN PbcH(i - 1, i, l) ELSE H(i - 1, i, l),
        IF pbc THEN PbcH(i + 1, i, l) ELSE H(i + 1, i, l),
        IF pbc THEN PbcV(i - l, nspins) ELSE V(i - l, nspins),
        IF pbc THEN PbcV(i + l, nspins) ELSE V(i + l, nspins) >>]

\* the test guarding bonds_.push_back in InitLattice
KeepBond(i, j) == i < j

RECURSIVE BuildBonds(_, _, _, _, _)
\* the double loop of InitLattice over i = 0..nspins-1 and k = 0..3
BuildBonds(nn, nspins, i, k, bonds) ==
  IF i >= nspins THEN bonds
  ELSE IF k >= 4 THEN BuildBonds(nn, nspins, i + 1, 0, bonds)
  ELSE BuildBonds(nn, nspins, i, k + 1,
         IF KeepBond(i, nn[i][k + 1]) THEN Append(bonds, <<i, nn[i][k + 1]>>)
         ELSE bonds)

\* LatticeInvalid that rejects only a side too long for the spin count
LatticeInvalidMutant(l, nspins) == l * l > nspins

\* the failure test of InitLattice
LatticeInvalid(l, nspins) == l * l # nspins

\* Heisenberg2d::Heisenberg2d with InitLattice; kind "aborted" is std::abort()
Heisenberg2dNew(nspins, jz, pbc) ==
  LET l == ISqrt(nspins) IN
  IF LatticeInvalid(l, nspins)
  THEN [kind |-> "aborted", nspins_ |-> nspins, pbc_ |-> pbc, jz_ |-> jz,
        l_ |-> l, nn_ |-> <<>>, bonds_ |-> <<>>]
  ELSE LET nn == Neighbours(nspins, l, pbc) IN
       [kind |-> "Heisenberg2d", nspins_ |-> nspins, pbc_ |-> pbc, jz_ |-> jz,
        l_ |-> l, nn_ |-> nn, bonds_ |-> BuildBonds(nn, nspins, 0, 0, <<>>)]

\* the interaction part Sz*Sz of Heisenberg2d::FindConn, before the factor jz_
Heisenberg2dSzSz(h, state) ==
  SumFrom([i \in 1..Len(h.bonds_) |-> state[h.bonds_[i][1]] * state[h.bonds_[i][2]]],
          1, Len(h.bonds_))

RECURSIVE Heisenberg2dFlips(_, _, _, _)
\* the loop "Looks for possible spin flips" over bonds_ from entry i on
Heisenberg2dFlips(h, state, i, out) ==
  IF i > Len(h.bonds_) THEN out
  ELSE LET si == h.bonds_[i][1]
           sj == h.bonds_[i][2]
       IN Heisenberg2dFlips(h, state, i + 1,
            IF BondFlippable(state, si, sj)
            THEN [mel |-> Append(out.mel, ExchangeMel),
                  flipsh |-> Append(out.flipsh, <<si, sj>>)]
            ELSE out)

\* Heisenberg2d::FindConn(state, flipsh, mel): the containers after the call
Heisenberg2dFindConn(h, state, flipsh, mel) ==
  Heisenberg2dFlips(h, state, 1,
    [mel |-> [Resize(mel, 1, 0) EXCEPT ![1] = h.jz_ * Heisenberg2dSzSz(h, state)],
     flipsh |-> Resize(flipsh, 1, <<>>)])

(***************************************************************************)
(* Ising1d                                                                 *)
(***************************************************************************)

\* FieldMel with the sign lost
FieldMelMutant(hfield) == hfield

\* the matrix element Init stores for every site
FieldMel(hfield) == -hfield

\* Ising1d::Ising1d with Init: the pre-computed mel_ and flipsh_
Ising1dNew(nspins, hfield, pbc) ==
  [kind |-> "Ising1d", nspins_ |-> nspins, hfield_ |-> hfield, pbc_ |-> pbc,
   mel_ |-> [k \in 1..(nspins + 1) |-> IF k = 1 THEN 0 ELSE FieldMel(hfield)],
   flipsh_ |-> [k \in 1..(nspins + 1) |-> IF k = 1 THEN <<>> ELSE <<k - 2>>]]

\* the interaction part Sz*Sz that Ising1d::FindConn subtracts
Ising1dSzSz(h, state) ==
  SumFrom([i \in 0..(h.nspins_ - 2) |-> state[i] * state[i+1]], 0, h.nspins_ - 2)
  + (IF h.pbc_ THEN state[h.nspins_ - 1] * state[0] ELSE 0)

\* Ising1d::FindConn(state, flipsh, mel): the containers after the call
Ising1dFindConn(h, state, flipsh, mel) ==
  [mel |-> [h.mel_ EXCEPT ![1] = 0 - Ising1dSzSz(h, state)],
   flipsh |-> h.flipsh_]

(***************************************************************************)
(* The Hamiltonian interface the Sampler template uses.                    *)
(***************************************************************************)

\* hamiltonian_.FindConn(state, flipsh, mel)
FindConn(h, state, flipsh, mel) ==
  IF h.kind = "Ising1d" THEN Ising1dFindConn(h, state, flipsh, mel)
  ELSE IF h.kind = "Heisenberg1d" THEN Heisenberg1dFindConn(h, state, flipsh, mel)
  ELSE Heisenberg2dFindConn(h, state, flipsh, mel)

\* hamiltonian_.MinFlips()
MinFlips(h) == IF h.kind = "Ising1d" THEN 1 ELSE 2

(***************************************************************************)
(* Nqs: the wave-function.  A value wf is the record of the loaded         *)
(* parameters [nv_, nh_, a_, b_, W_]; the look-up table Lt_ is passed      *)
(* beside it.                                                              *)
(***************************************************************************)

\* fixed-point unit: a logarithm x is the integer x * Scale
Scale == 1000 * 1000

\* ln(cosh(x)) * Scale for x = 0..12, rounded to the nearest integer
LnCoshTable ==
  <<0, 433781, 1325003, 2309329, 3307188, 4306898, 5306859, 6306854,
    7306853, 8306853, 9306853, 10306853, 11306853>>

\* log2_ = std::log(2.) in units of 1/Scale
Log2 == 693147

\* the argument up to which Nqs::lncosh uses log(cosh(x))
LnCoshCutoff == 12

\* std::abs
Abs(x) == IF x < 0 THEN 0 - x ELSE x

\* Nqs::lncosh: log(cosh(|x|)) up to the cut-off, |x| - log 2 beyond it
LnCosh(x) ==
  IF Abs(x) <= LnCoshCutoff THEN LnCoshTable[Abs(x) + 1]
  ELSE Abs(x) * Scale - Log2

\* the effective field of hidden unit h on a configuration:
\* b_[h] + sum over v of state[v]*W_[v][h]
Theta(wf, state, h) ==
  wf.b_[h] + SumFrom([v \in 0..(wf.nv_ - 1) |-> state[v] * wf.W_[v][h]], 0, wf.nv_ - 1)

\* Nqs::LogVal
LogVal(wf, state) ==
  Scale * SumFrom([v \in 0..(wf.nv_ - 1) |-> wf.a_[v] * state[v]], 0, wf.nv_ - 1)
  + SumFrom([h \in 0..(wf.nh_ - 1) |-> LnCosh(Theta(wf, state, h))], 0, wf.nh_ - 1)

\* FlipShift without the factor state[flip]
FlipShiftMutant(wf, state, flips, h) ==
  0 - SumFrom([k \in 1..Len(flips) |-> 2 * wf.W_[flips[k]][h]], 1, Len(flips))

\* the change of the effective field of hidden unit h when the sites of flips
\* are flipped: minus the sum over flips of 2*state[flip]*W_[flip][h]
FlipShift(wf, state, flips, h) ==
  0 - SumFrom([k \in 1..Len(flips) |-> 2 * state[flips[k]] * wf.W_[flips[k]][h]],
              1, Len(flips))

\* LogPoP with the sign of the visible-bias term lost
LogPoPMutant(wf, Lt, state, flips) ==
  IF Len(flips) = 0 THEN 0
  ELSE Scale * SumFrom([k \in 1..Len(flips) |-> wf.a_[flips[k]] * 2 * state[flips[k]]],
                       1, Len(flips))
       + SumFrom([h \in 0..(wf.nh_ - 1) |->
                    LnCosh(Lt[h] + FlipShift(wf, state, flips, h)) - LnCosh(Lt[h])],
                 0, wf.nh_ - 1)

\* Nqs::LogPoP
LogPoP(wf, Lt, state, flips) ==
  IF Len(flips) = 0 THEN 0
  ELSE 0 - Scale * SumFrom([k \in 1..Len(flips) |-> wf.a_[flips[k]] * 2 * state[flips[k]]],
                           1, Len(flips))
       + SumFrom([h \in 0..(wf.nh_ - 1) |->
                    LnCosh(Lt[h] + FlipShift(wf, state, flips, h)) - LnCosh(Lt[h])],
                 0, wf.nh_ - 1)

\* Nqs::PoP = std::exp(LogPoP), kept as its logarithm
PoP(wf, Lt, state, flips) ==
  [none |-> FALSE, zero |-> FALSE, log |-> LogPoP(wf, Lt, state, flips)]

\* Norm that returns the modulus, not its square
NormMutant(p) == [none |-> FALSE, zero |-> p.zero, log |-> p.log]

\* std::norm of a value kept as its logarithm: |exp(z)|^2 = exp(2 Re z)
Norm(p) == [none |-> FALSE, zero |-> p.zero, log |-> 2 * p.log]

\* r >= u in the place of r > u
GreaterMutant(r, u) ==
  IF u.zero THEN TRUE
  ELSE IF r.zero THEN FALSE
  ELSE r.log >= u.log

\* r > u for two non-negative reals kept as logarithms
Greater(r, u) ==
  IF r.zero THEN FALSE
  ELSE IF u.zero THEN TRUE
  ELSE r.log > u.log

\* Nqs::InitLt
InitLt(wf, state) == [h \in 0..(wf.nh_ - 1) |-> Theta(wf, state, h)]

\* UpdateLt as if it were given the configuration after the flips
UpdateLtMutant(wf, Lt, state, flips) ==
  IF Len(flips) = 0 THEN Lt
  ELSE [h \in 0..(wf.nh_ - 1) |-> Lt[h] - FlipShift(wf, state, flips, h)]

\* Nqs::UpdateLt
UpdateLt(wf, Lt, state, flips) ==
  IF Len(flips) = 0 THEN Lt
  ELSE [h \in 0..(wf.nh_ - 1) |-> Lt[h] + FlipShift(wf, state, flips, h)]

(***************************************************************************)
(* Sampler                                                                 *)
(***************************************************************************)

\* a value of Sampler::Uniform(), which is in [0,1): 0, or exp(l / Scale)
\* for a logarithm l < 0
UniformVal(l) == [none |-> FALSE, zero |-> l >= 0, log |-> IF l >= 0 THEN 0 ELSE l]

\* the values Move is given by Uniform(): 0, which accepts every proposal of
\* non-zero acceptance, and the largest value below 1 that the fixed point
\* tells from 1, which rejects every proposal of acceptance below 1
UniformVals == {UniformVal(0), UniformVal(-1)}

\* Move has computed no acceptance
NoAcceptance == [none |-> TRUE, zero |-> TRUE, log |-> 0]

\* Move has not called Uniform()
NoUniform == [none |-> TRUE, zero |-> TRUE, log |-> 0]

\* the sum of the spins of a configuration (magt in InitRandomState)
Magnetization(state) ==
  SumFrom(state, 0, Cardinality(DOMAIN state) - 1)

\* RandSpin as with mag0 = false: the two sites only have to differ
RandSpinOkMutant(state, flips, nflips) ==
  IF nflips = 2 THEN flips[2] # flips[1] ELSE TRUE

\* the value Sampler::RandSpin returns for the flips it drew (mag0 = true)
RandSpinOk(state, flips, nflips) ==
  IF nflips = 2 THEN state[flips[2]] # state[flips[1]] ELSE TRUE

RECURSIVE ApplyFlips(_, _, _)
\* the loop of Move that negates state_[flip] for each flip, from entry k on
ApplyFlips(state, flips, k) ==
  IF k > Len(flips) THEN state
  ELSE ApplyFlips([state EXCEPT ![flips[k]] = 0 - state[flips[k]]], flips, k + 1)

\* the Metropolis-Hastings test with its comparison turned round
MetropolisAcceptMutant(acc, u) == Greater(u, acc)

\* the Metropolis-Hastings test of Move
MetropolisAccept(acc, u) == Greater(acc, u)

\* Sampler::Move(nflips), with the sites and the uniform variate it draws
Move(nflips) ==
  \E f0 \in 0..(wf_.nv_ - 1), f1 \in (IF nflips = 2 THEN 0..(wf_.nv_ - 1) ELSE {0}),
     u \in UniformVals :
    LET flips == IF nflips = 2 THEN <<f0, f1>> ELSE <<f0>>
        acc == Norm(PoP(wf_, Lt_, state_, flips))
    IN /\ flips_' = flips
       /\ IF RandSpinOk(state_, flips, nflips)
          THEN /\ acceptance' = acc
               /\ uniform' = u
               /\ IF MetropolisAccept(acc, u)
                  THEN /\ Lt_' = UpdateLt(wf_, Lt_, state_, flips)
                       /\ state_' = ApplyFlips(state_, flips, 1)
                       /\ accept_' = accept_ + 1
                  ELSE UNCHANGED <<Lt_, state_, accept_>>
          ELSE /\ acceptance' = NoAcceptance
               /\ uniform' = NoUniform
               /\ UNCHANGED <<Lt_, state_, accept_>>
       /\ nmoves_' = nmoves_ + 1

\* the term list of Sampler::MeasureEnergy's sum: en is the sum over k of
\* mel[k] * exp(logpop[k] / Scale)
LocalEnergy(wf, Lt, state, flipsh, mel) ==
  [k \in 1..Len(flipsh) |->
     [mel |-> mel[k], logpop |-> PoP(wf, Lt, state, flipsh[k]).log]]

\* nblocks of OutputEnergy
NBlocks == 50

\* blocksize of OutputEnergy for n = energy_.size()
BlockSize(n) == n \div NBlocks

\* the first index of block i
BlockBegin(i, blocksize) == i * blocksize

\* the bound of the inner loop of block i, one index too far
BlockEndMutant(i, blocksize) == (i + 1) * blocksize + 1

\* the bound of the inner loop of block i
BlockEnd(i, blocksize) == (i + 1) * blocksize

\* the inner loop of OutputEnergy for block i: the list of its reads
\* energy_[j], j = BlockBegin, BlockBegin + 1, ... while j < BlockEnd, each
\* with the block it is added to
BlockReads(i, blocksize) ==
  [k \in 1..(BlockEnd(i, blocksize) - BlockBegin(i, blocksize)) |->
     [block |-> i, index |-> BlockBegin(i, blocksize) + k - 1]]

RECURSIVE AllReads(_, _)
\* the outer loop of OutputEnergy from block i on: the reads in their order
AllReads(i, blocksize) ==
  IF i < NBlocks
  THEN BlockReads(i, blocksize) \o AllReads(i + 1, blocksize)
  ELSE <<>>

\* OutputEnergy on n samples: its blocksize and its reads of energy_
OutputEnergy(n) ==
  [called |-> TRUE, blocksize |-> BlockSize(n), reads |-> AllReads(0, BlockSize(n))]

\* OutputEnergy not called
NoOutput == [called |-> FALSE, blocksize |-> 0, reads |-> <<>>]

\* where OutputEnergy can end on n samples: a read energy_[j] with j >= n is
\* undefined, and the assertion after it aborts when assertions are compiled in
OutputEnds(est, n) ==
  IF \A k \in 1..Len(est.reads) : est.reads[k].index < n
  THEN {"done"}
  ELSE {"done", "abort_output"}

\* the least number of sweeps Run accepts
MinSweeps == 50

\* thermfactor is a multiple of 1/ThermDen
ThermDen == 10

\* RunInvalid that also rejects exactly MinSweeps sweeps
RunInvalidMutant(nflips, thermfactor, nsweeps) ==
  \/ nflips > 2 \/ nflips < 1
  \/ thermfactor > ThermDen \/ thermfactor < 0
  \/ nsweeps <= MinSweeps

\* the three input checks of Run, in the code's order
RunInvalid(nflips, thermfactor, nsweeps) ==
  \/ nflips > 2 \/ nflips < 1
  \/ thermfactor > ThermDen \/ thermfactor < 0
  \/ nsweeps < MinSweeps

\* the condition of Run's thermalization loop: n < nsweeps*thermfactor
ThermMore(r) == r.n * ThermDen < r.nsweeps * r.thermfactor

\* the condition of Run's loop over the sweeps: n < nsweeps
SweepMore(r) == r.n < r.nsweeps

\* the inner loops of Run without sweepfactor
MoveMoreMutant(r) == r.i < wf_.nv_

\* the condition of the inner loops of Run: i < nspins_*sweepfactor
MoveMore(r) == r.i < wf_.nv_ * r.sweepfactor

hamVars == <<hamiltonian_, wf_, writestates_>>

\* Run(nsweeps, thermfactor, sweepfactor, nflipss) up to the input checks
RunStart(nsweeps, thermfactor, sweepfactor, nflipss) ==
  /\ pc = "start"
  /\ LET nflips == IF nflipss = -1 THEN MinFlips(hamiltonian_) ELSE nflipss IN
       /\ run' = [nsweeps |-> nsweeps, thermfactor |-> thermfactor,
                  sweepfactor |-> sweepfactor, nflipss |-> nflipss,
                  nflips |-> nflips, n |-> 0, i |-> 0,
                  thermsweeps |-> 0, meassweeps |-> 0, moves |-> 0]
       /\ pc' = IF RunInvalid(nflips, thermfactor, nsweeps) THEN "abort_run"
                ELSE "initrand"
  /\ UNCHANGED <<hamVars, Lt_, state_, flips_, accept_, nmoves_, mel_, flipsh_,
                 energy_size, en, filestates_, acceptance, uniform, estimator>>

\* zero magnetization asked for only when Run flips two spins at a time
OddSpinsMutant(nspins) == run.nflips = 2 /\ nspins % 2 # 0

\* the test if(nspins_%2) of InitRandomState, which Run calls with the
\* default mag0 = true
OddSpins(nspins) == nspins % 2 # 0

\* InitRandomState(): the random configuration, and the abort on an odd
\* number of spins (mag0 = true)
InitRandomDraw ==
  /\ pc = "initrand"
  /\ state_' \in Configs(wf_.nv_)
  /\ pc' = IF OddSpins(wf_.nv_) THEN "abort_init" ELSE "initfix"
  /\ UNCHANGED <<hamVars, Lt_, flips_, accept_, nmoves_, mel_, flipsh_,
                 energy_size, en, filestates_, acceptance, uniform, estimator, run>>

\* the inner loops of InitRandomState with their tests inverted
MajoritySiteMutant(state, magt, rs) ==
  IF magt > 0 THEN ~(state[rs] > 0) ELSE ~(state[rs] < 0)

\* the site InitRandomState may pick to correct a magnetization magt # 0
MajoritySite(state, magt, rs) ==
  IF magt > 0 THEN ~(state[rs] < 0) ELSE ~(state[rs] > 0)

\* InitRandomState(): one turn of the loop while(magt!=0) that corrects the
\* magnetization
InitRandomFix ==
  /\ pc = "initfix"
  /\ LET magt == Magnetization(state_) IN
       /\ magt # 0
       /\ \E rs \in 0..(wf_.nv_ - 1) :
            /\ MajoritySite(state_, magt, rs)
            /\ state_' = [state_ EXCEPT ![rs] = IF magt > 0 THEN -1 ELSE 1]
  /\ UNCHANGED <<pc, hamVars, Lt_, flips_, accept_, nmoves_, mel_, flipsh_,
                 energy_size, en, filestates_, acceptance, uniform, estimator, run>>

\* the end of InitRandomState, then Run's flips_.resize, InitLt and ResetAv
RunInitLt ==
  /\ pc = "initfix"
  /\ Magnetization(state_) = 0
  /\ flips_' = Resize(flips_, run.nflips, 0)
  /\ Lt_' = InitLt(wf_, state_)
  /\ accept_' = 0
  /\ nmoves_' = 0
  /\ pc' = "therm"
  /\ UNCHANGED <<hamVars, state_, mel_, flipsh_, energy_size, en, filestates_,
                 acceptance, uniform, estimator, run>>

\* one Move of a thermalization sweep
ThermMove ==
  /\ pc = "therm"
  /\ ThermMore(run)
  /\ MoveMore(run)
  /\ Move(run.nflips)
  /\ run' = [run EXCEPT !.i = @ + 1, !.moves = @ + 1]
  /\ UNCHANGED <<pc, hamVars, mel_, flipsh_, energy_size, en, filestates_, estimator>>

\* the end of a thermalization sweep
ThermSweepEnd ==
  /\ pc = "therm"
  /\ ThermMore(run)
  /\ ~MoveMore(run)
  /\ run' = [run EXCEPT !.n = @ + 1, !.i = 0, !.thermsweeps = @ + 1]
  /\ UNCHANGED <<pc, hamVars, Lt_, state_, flips_, accept_, nmoves_, mel_, flipsh_,
                 energy_size, en, filestates_, acceptance, uniform, estimator>>

\* the end of the thermalization, and ResetAv
ThermDone ==
  /\ pc = "therm"
  /\ ~ThermMore(run)
  /\ accept_' = 0
  /\ nmoves_' = 0
  /\ run' = [run EXCEPT !.n = 0, !.i = 0]
  /\ pc' = "sweep"
  /\ UNCHANGED <<hamVars, Lt_, state_, flips_, mel_, flipsh_, energy_size, en,
                 filestates_, acceptance, uniform, estimator>>

\* one Move of a sweep of the second loop
SweepMove ==
  /\ pc = "sweep"
  /\ SweepMore(run)
  /\ MoveMore(run)
  /\ Move(run.nflips)
  /\ run' = [run EXCEPT !.i = @ + 1, !.moves = @ + 1]
  /\ UNCHANGED <<pc, hamVars, mel_, flipsh_, energy_size, en, filestates_, estimator>>

\* the end of the moves of a sweep of the second loop: WriteState when
\* enabled
SweepWriteState ==
  /\ pc = "sweep"
  /\ SweepMore(run)
  /\ ~MoveMore(run)
  /\ filestates_' = IF writestates_ THEN filestates_ + 1 ELSE filestates_
  /\ pc' = "measure"
  /\ UNCHANGED <<hamVars, Lt_, state_, flips_, accept_, nmoves_, mel_, flipsh_,
                 energy_size, en, acceptance, uniform, estimator, run>>

\* the end of a sweep of the second loop: MeasureEnergy
SweepMeasure ==
  /\ pc = "measure"
  /\ pc' = "sweep"
  /\ LET out == FindConn(hamiltonian_, state_, flipsh_, mel_) IN
       /\ mel_' = out.mel
       /\ flipsh_' = out.flipsh
       /\ en' = LocalEnergy(wf_, Lt_, state_, out.flipsh, out.mel)
  /\ energy_size' = energy_size + 1
  /\ run' = [run EXCEPT !.n = @ + 1, !.i = 0, !.meassweeps = @ + 1]
  /\ UNCHANGED <<hamVars, Lt_, state_, flips_, accept_, nmoves_, filestates_,
                 acceptance, uniform, estimator>>

\* the end of the second loop, and OutputEnergy
SweepDone ==
  /\ pc = "sweep"
  /\ ~SweepMore(run)
  /\ estimator' = OutputEnergy(energy_size)
  /\ pc' \in OutputEnds(estimator', energy_size)
  /\ UNCHANGED <<hamVars, Lt_, state_, flips_, accept_, nmoves_, mel_, flipsh_,
                 energy_size, en, filestates_, acceptance, uniform, run>>

(***************************************************************************)
(* Specification SpecHam: a Hamiltonian is constructed and FindConn is     *)
(* then called any number of times, on arbitrary configurations, with the  *)
(* same two output containers (as Sampler::MeasureEnergy does with its     *)
(* members flipsh_ and mel_, which start empty).                           *)
(***************************************************************************)

\* largest chain length of the 1d Hamiltonians
MaxSpins1d == 4
\* largest spin count offered to the Heisenberg2d constructor
MaxSpins2d == 10
\* coupling constants J_z offered to the Heisenberg constructors
JzVals == {-1, 1, 2}
\* transverse fields offered to the Ising1d constructor
HfieldVals == {0, 1, 3}

\* no Nqs loaded
NoWf == [nv_ |-> 0, nh_ |-> 0, a_ |-> <<>>, b_ |-> <<>>, W_ |-> <<>>]
\* Run not entered
NoRun == [nsweeps |-> 0, thermfactor |-> 0, sweepfactor |-> 0, nflipss |-> 0,
          nflips |-> 0, n |-> 0, i |-> 0, thermsweeps |-> 0, meassweeps |-> 0,
          moves |-> 0]

samplerVars == <<wf_, Lt_, flips_, accept_, nmoves_, energy_size, en,
                 writestates_, filestates_, acceptance, uniform, estimator, run>>

InitHam ==
  /\ pc = "new"
  /\ hamiltonian_ = [kind |-> "none"]
  /\ wf_ = NoWf
  /\ Lt_ = <<>>
  /\ state_ = <<>>
  /\ flips_ = <<>>
  /\ accept_ = 0
  /\ nmoves_ = 0
  /\ mel_ = <<>>
  /\ flipsh_ = <<>>
  /\ energy_size = 0
  /\ en = <<>>
  /\ writestates_ = FALSE
  /\ filestates_ = 0
  /\ acceptance = NoAcceptance
  /\ uniform = NoUniform
  /\ estimator = NoOutput
  /\ run = NoRun

\* Heisenberg1d hamiltonian(nspins, jz, pbc)
NewHeisenberg1d ==
  /\ pc = "new"
  /\ \E nspins \in 1..MaxSpins1d, jz \in JzVals, pbc \in BOOLEAN :
       hamiltonian_' = Heisenberg1dNew(nspins, jz, pbc)
  /\ pc' = "ready"
  /\ UNCHANGED <<state_, mel_, flipsh_, samplerVars>>

\* Heisenberg2d hamiltonian(nspins, jz, pbc): InitLattice may abort
NewHeisenberg2d ==
  /\ pc = "new"
  /\ \E nspins \in 0..MaxSpins2d, jz \in JzVals, pbc \in BOOLEAN :
       hamiltonian_' = Heisenberg2dNew(nspins, jz, pbc)
  /\ pc' = IF hamiltonian_'.kind = "aborted" THEN "aborted" ELSE "ready"
  /\ UNCHANGED <<state_, mel_, flipsh_, samplerVars>>

\* Ising1d hamiltonian(nspins, hfield, pbc)
NewIsing1d ==
  /\ pc = "new"
  /\ \E nspins \in 1..MaxSpins1d, hfield \in HfieldVals, pbc \in BOOLEAN :
       hamiltonian_' = Ising1dNew(nspins, hfield, pbc)
  /\ pc' = "ready"
  /\ UNCHANGED <<state_, mel_, flipsh_, samplerVars>>

\* the number of sites at which two configurations differ
Distance(s, t) == Cardinality({v \in DOMAIN s : s[v] # t[v]})

\* hamiltonian_.FindConn(state_, flipsh_, mel_) on a configuration the caller
\* chose: any configuration at the first call, and afterwards one that differs
\* from the previous one at no more than two sites (every configuration is
\* reached that way, and the containers carry over from call to call)
CallFindConn ==
  /\ pc = "ready"
  /\ \E s \in Configs(hamiltonian_.nspins_) :
       /\ IF mel_ = <<>> THEN TRUE ELSE Distance(s, state_) <= 2
       /\ state_' = s
       /\ LET out == FindConn(hamiltonian_, s, flipsh_, mel_) IN
            /\ mel_' = out.mel
            /\ flipsh_' = out.flipsh
  /\ UNCHANGED <<pc, hamiltonian_, samplerVars>>

NextHam == NewHeisenberg1d \/ NewHeisenberg2d \/ NewIsing1d \/ CallFindConn

SpecHam == InitHam /\ [][NextHam]_vars

(***************************************************************************)
(* Specifications SpecRun and SpecChain: main has loaded the Nqs, built    *)
(* the Hamiltonian on wavef.Nspins() spins (periodic, as main does) and    *)
(* the Sampler, and calls Run.  SpecRun follows Run to its end on two      *)
(* spins; SpecChain follows the first MaxMoves moves of Run on up to four  *)
(* spins, for all three Hamiltonians.                                      *)
(***************************************************************************)

\* the number of Move calls SpecChain follows
MaxMoves == 4
\* SpecRun offers Run MinSweeps .. MinSweeps + MaxExtraSweeps sweeps (and
\* fewer, which Run rejects)
MaxExtraSweeps == 0

\* a wave-function with one hidden unit that couples equally to every spin
WfFlat(nv) ==
  [nv_ |-> nv, nh_ |-> 1,
   a_ |-> [v \in 0..(nv - 1) |-> 0],
   b_ |-> [h \in 0..0 |-> 0],
   W_ |-> [v \in 0..(nv - 1) |-> [h \in 0..0 |-> 1]]]

\* a wave-function with two hidden units, site-dependent weights and biases
WfMixed(nv) ==
  [nv_ |-> nv, nh_ |-> 2,
   a_ |-> [v \in 0..(nv - 1) |-> v % 2],
   b_ |-> [h \in 0..1 |-> 1 - 2 * h],
   W_ |-> [v \in 0..(nv - 1) |-> [h \in 0..1 |-> IF h = 0 THEN v - 1 ELSE 1 - (v % 3)]]]

\* a wave-function whose effective field passes the cut-off of lncosh
WfLarge(nv) ==
  [nv_ |-> nv, nh_ |-> 1,
   a_ |-> [v \in 0..(nv - 1) |-> 0 - 1],
   b_ |-> [h \in 0..0 |-> 1],
   W_ |-> [v \in 0..(nv - 1) |-> [h \in 0..0 |-> 7 - 3 * v]]]

\* the Hamiltonians main can build on nv spins
MainHamiltonians(nv) ==
  {Ising1dNew(nv, 1, TRUE), Heisenberg1dNew(nv, 2, TRUE)}
  \cup {h \in {Heisenberg2dNew(nv, 2, TRUE)} : h.kind # "aborted"}

\* the state when main calls Run, for the given Nqs and Hamiltonians
InitSampler(wfs, hams, files) ==
  /\ pc = "start"
  /\ wf_ \in wfs
  /\ hamiltonian_ \in hams
  /\ hamiltonian_.nspins_ = wf_.nv_
  /\ writestates_ \in files
  /\ Lt_ = <<>>
  /\ state_ = <<>>
  /\ flips_ = <<>>
  /\ accept_ = 0
  /\ nmoves_ = 0
  /\ mel_ = <<>>
  /\ flipsh_ = <<>>
  /\ energy_size = 0
  /\ en = <<>>
  /\ filestates_ = 0
  /\ acceptance = NoAcceptance
  /\ uniform = NoUniform
  /\ estimator = NoOutput
  /\ run = NoRun

\* the arguments SpecRun offers to Run: main's call Run(nsweeps), with the
\* defaults thermfactor = 0.1, sweepfactor = 1 and nflipss = -1, and calls
\* with one or more arguments out of range
RunNsweeps == {10, MinSweeps - 1} \cup (MinSweeps..(MinSweeps + MaxExtraSweeps))
RunTherm == {-1, 1, ThermDen + 1}
RunNflips == {-1, 0, 3}

\* the arguments SpecInit offers to Run: every boundary of the input checks
InitNsweeps == {10, MinSweeps - 1, MinSweeps}
InitTherm == {-1, 0, 1, ThermDen, ThermDen + 1}
InitNflips == {-1, 0, 1, 2, 3}

\* the arguments SpecChain offers to Run: no thermalization or nothing but
\* thermalization, and either flip count on every Hamiltonian
ChainTherm == {0, ThermDen}
ChainNflips == {1, 2}

InitRun ==
  InitSampler({WfMixed(nv) : nv \in {2, 3}},
              {h \in UNION {MainHamiltonians(nv) : nv \in {2, 3}} : h.kind # "Heisenberg2d"},
              {TRUE})

\* main calls Run
CallRun ==
  \E nsweeps \in RunNsweeps, thermfactor \in RunTherm, nflipss \in RunNflips :
    RunStart(nsweeps, thermfactor, 1, nflipss)

NextRun ==
  \/ CallRun
  \/ InitRandomDraw
  \/ InitRandomFix
  \/ RunInitLt
  \/ ThermMove
  \/ ThermSweepEnd
  \/ ThermDone
  \/ SweepMove
  \/ SweepWriteState
  \/ SweepMeasure
  \/ SweepDone

SpecRun == InitRun /\ [][NextRun]_vars

\* (the configurations are written to a file on two spins only)
InitChain ==
  \/ InitSampler(UNION {{WfFlat(nv), WfMixed(nv), WfLarge(nv)} : nv \in {2, 3, 4}},
                 UNION {MainHamiltonians(nv) : nv \in {2, 3, 4}},
                 {FALSE})
  \/ InitSampler({WfFlat(2), WfMixed(2), WfLarge(2)}, MainHamiltonians(2), {TRUE})

\* a caller of Run (two sweeps' worth of moves per sweep is offered on two
\* spins only)
CallRunChain ==
  \E thermfactor \in ChainTherm, nflipss \in ChainNflips,
     sweepfactor \in (IF wf_.nv_ = 2 THEN {1, 2} ELSE {1}) :
    RunStart(MinSweeps, thermfactor, sweepfactor, nflipss)

NextChain ==
  \/ CallRunChain
  \/ InitRandomDraw
  \/ InitRandomFix
  \/ RunInitLt
  \/ (run.moves < MaxMoves /\ ThermMove)
  \/ ThermSweepEnd
  \/ ThermDone
  \/ (run.moves < MaxMoves /\ SweepMove)
  \/ SweepWriteState
  \/ SweepMeasure

SpecChain == InitChain /\ [][NextChain]_vars

(***************************************************************************)
(* Specification SpecInit: Run from its call to the end of its             *)
(* initialization (input checks, InitRandomState, InitLt, ResetAv), for    *)
(* every boundary of the input checks.                                     *)
(***************************************************************************)

InitInit ==
  InitSampler(UNION {{WfFlat(nv), WfMixed(nv), WfLarge(nv)} : nv \in {1, 2, 3, 4}},
              UNION {MainHamiltonians(nv) : nv \in {1, 2, 3, 4}},
              BOOLEAN)

CallRunInit ==
  \E nsweeps \in InitNsweeps, thermfactor \in InitTherm, nflipss \in InitNflips,
     sweepfactor \in {1, 2} :
    RunStart(nsweeps, thermfactor, sweepfactor, nflipss)

NextInit ==
  \/ CallRunInit
  \/ InitRandomDraw
  \/ InitRandomFix
  \/ RunInitLt

SpecInit == InitInit /\ [][NextInit]_vars

\* SpecInit with the progress the code makes: the draw of the configuration
\* and the end of InitRandomState are straight-line code, and the loops
\* "while(state_[rs]<0) rs=distn_(gen_)" leave with a site of the majority
\* sign when the random sites are fair (a draw that misses changes no
\* variable: it is a stuttering step)
SpecInitFair ==
  /\ SpecInit
  /\ WF_vars(CallRunInit)
  /\ WF_vars(InitRandomDraw)
  /\ WF_vars(InitRandomFix)
  /\ WF_vars(RunInitLt)

(***************************************************************************)
(* Specification SpecEst: OutputEnergy.  It is called at the end of Run    *)
(* (here Run(MinSweeps) with main's defaults on two spins), and, being a   *)
(* public member, on a Sampler whose energy_ holds the samples of earlier  *)
(* Runs: none, or MinSweeps and more, since a Run that passes its input    *)
(* checks appends nsweeps >= MinSweeps samples.  The block loops read      *)
(* energy_ and no other member.                                            *)
(***************************************************************************)

\* the most samples energy_ holds when OutputEnergy is called
MaxSamples == 152

InitEst ==
  \/ InitSampler({WfFlat(2)}, {Heisenberg1dNew(2, 2, TRUE)}, {FALSE})
  \/ /\ pc = "filled"
     /\ wf_ = WfFlat(2)
     /\ hamiltonian_ = Heisenberg1dNew(2, 2, TRUE)
     /\ writestates_ = FALSE
     /\ Lt_ = <<>>
     /\ state_ = <<>>
     /\ flips_ = <<>>
     /\ accept_ = 0
     /\ nmoves_ = 0
     /\ mel_ = <<>>
     /\ flipsh_ = <<>>
     /\ energy_size \in {0} \cup (MinSweeps..MaxSamples)
     /\ en = <<>>
     /\ filestates_ = 0
     /\ acceptance = NoAcceptance
     /\ uniform = NoUniform
     /\ estimator = NoOutput
     /\ run = NoRun

\* sampler.Run(nsweeps) with the least nsweeps
CallRunEst ==
  RunStart(MinSweeps, 1, 1, -1)

\* sampler.OutputEnergy() called by the owner of the Sampler
CallOutputEnergy ==
  /\ pc = "filled"
  /\ estimator' = OutputEnergy(energy_size)
  /\ pc' \in OutputEnds(estimator', energy_size)
  /\ UNCHANGED <<hamVars, Lt_, state_, flips_, accept_, nmoves_, mel_, flipsh_,
                 energy_size, en, filestates_, acceptance, uniform, run>>

NextEst ==
  \/ CallRunEst
  \/ InitRandomDraw
  \/ InitRandomFix
  \/ RunInitLt
  \/ ThermMove
  \/ ThermSweepEnd
  \/ ThermDone
  \/ SweepMove
  \/ SweepWriteState
  \/ SweepMeasure
  \/ SweepDone
  \/ CallOutputEnergy

SpecEst == InitEst /\ [][NextEst]_vars

(***************************************************************************)
(* Specification SpecAccept: the Metropolis-Hastings test of Move and the  *)
(* counters after it, for an acceptance and a value of Uniform() drawn     *)
(* from grids that hold 0, values below 1, 1 and values above 1.           *)
(***************************************************************************)

\* logarithms, in units of 1/Scale, of the values below 1 of the grids
LogsBelowOne == {0 - 3 * Scale, 0 - 2 * Scale, 0 - Scale, -2, -1}

\* the values std::norm can return: 0, values below 1, 1, values above 1
AcceptanceVals ==
  {[none |-> FALSE, zero |-> TRUE, log |-> 0]}
  \cup {[none |-> FALSE, zero |-> FALSE, log |-> l] :
          l \in LogsBelowOne \cup {0, 1, 2, Scale, 2 * Scale}}

\* the values Uniform() can return
UniformGrid == {UniformVal(l) : l \in LogsBelowOne \cup {0}}

InitAccept ==
  /\ pc = "test"
  /\ acceptance \in AcceptanceVals
  /\ uniform \in UniformGrid
  /\ wf_ = WfFlat(2)
  /\ hamiltonian_ = Heisenberg1dNew(2, 2, TRUE)
  /\ writestates_ = FALSE
  /\ Lt_ = <<>>
  /\ state_ = <<>>
  /\ flips_ = <<>>
  /\ accept_ = 0
  /\ nmoves_ = 0
  /\ mel_ = <<>>
  /\ flipsh_ = <<>>
  /\ energy_size = 0
  /\ en = <<>>
  /\ filestates_ = 0
  /\ estimator = NoOutput
  /\ run = NoRun

\* if(acceptance>Uniform()) accept_+=1, and nmoves_+=1
MetropolisTest ==
  /\ pc = "test"
  /\ pc' = "tested"
  /\ accept_' = IF MetropolisAccept(acceptance, uniform) THEN accept_ + 1 ELSE accept_
  /\ nmoves_' = nmoves_ + 1
  /\ UNCHANGED <<hamVars, Lt_, state_, flips_, mel_, flipsh_, energy_size, en,
                 filestates_, acceptance, uniform, estimator, run>>

NextAccept == MetropolisTest

SpecAccept == InitAccept /\ [][NextAccept]_vars

(***************************************************************************)
(* Properties of the Hamiltonians, checked under SpecHam.                  *)
(***************************************************************************)

\* FindConn has been called on the constructed Hamiltonian
Called == pc = "ready" /\ Len(mel_) >= 1

\* the Heisenberg2d constructor has run (to completion or to abort)
Built2d == pc \in {"ready", "aborted"} /\ hamiltonian_.kind \in {"Heisenberg2d", "aborted"}

IsPerfectSquare(n) == \E k \in 0..n : k * k = n

\* C6: constructing the 2D Heisenberg Hamiltonian on N >= 0 spins aborts,
\* with no neighbour and no bond built, if and only if N is not a perfect
\* square; otherwise it succeeds with a side l_ such that l_ * l_ = N.
C6_SquareLatticeOnly ==
  Built2d =>
    /\ (hamiltonian_.kind = "aborted") <=> ~IsPerfectSquare(hamiltonian_.nspins_)
    /\ hamiltonian_.kind = "aborted" =>
         /\ pc = "aborted"
         /\ hamiltonian_.nn_ = <<>>
         /\ hamiltonian_.bonds_ = <<>>
    /\ hamiltonian_.kind = "Heisenberg2d" =>
         /\ pc = "ready"
         /\ hamiltonian_.l_ * hamiltonian_.l_ = hamiltonian_.nspins_
         /\ DOMAIN hamiltonian_.nn_ = 0..(hamiltonian_.nspins_ - 1)

\* C6 witness: the constructor has aborted on 10 spins
C6_Witness ==
  /\ Built2d
  /\ hamiltonian_.kind = "aborted"
  /\ hamiltonian_.nspins_ = 10

\* the undirected nearest-neighbour pairs of the chain of n sites
ChainPairs(n, pbc) ==
  {{i, i + 1} : i \in 0..(n - 2)} \cup (IF pbc THEN {{n - 1, 0}} ELSE {})

RECURSIVE SumPairs(_, _)
\* the sum of state[i]*state[j] over a set of two-site sets {i,j}
SumPairs(pairs, state) ==
  IF pairs = {} THEN 0
  ELSE LET p == CHOOSE q \in pairs : TRUE
           i == CHOOSE x \in p : TRUE
           j == CHOOSE y \in p : y # i
       IN state[i] * state[j] + SumPairs(pairs \ {p}, state)

\* C7 as claimed: on a chain of N >= 2 sites the diagonal element of
\* Heisenberg1d::FindConn is Jz times the sum of state[i]*state[j] over the
\* nearest-neighbour bonds, each undirected pair {i,j} counted exactly once.
C7_DiagonalOncePerPair ==
  (Called /\ hamiltonian_.kind = "Heisenberg1d" /\ hamiltonian_.nspins_ >= 2) =>
    /\ flipsh_[1] = <<>>
    /\ mel_[1] = hamiltonian_.jz_
                   * SumPairs(ChainPairs(hamiltonian_.nspins_, hamiltonian_.pbc_), state_)

\* C7 restricted to the chains on which no pair occurs twice (not the periodic
\* chain of two sites): kept to show where the claim and the code part
C7_DiagonalExceptPeriodicPair ==
  (Called /\ hamiltonian_.kind = "Heisenberg1d" /\ hamiltonian_.nspins_ >= 2
     /\ ~(hamiltonian_.pbc_ /\ hamiltonian_.nspins_ = 2)) =>
    mel_[1] = hamiltonian_.jz_
                * SumPairs(ChainPairs(hamiltonian_.nspins_, hamiltonian_.pbc_), state_)

\* row and column of site s on the l x l grid
Row(s, l) == s \div l
Col(s, l) == s % l

\* i and j are distinct left/right/up/down neighbours on the l x l grid
GridNeighbours(i, j, l, pbc) ==
  /\ i # j
  /\ \/ /\ Row(i, l) = Row(j, l)
        /\ \/ Col(i, l) - Col(j, l) \in {-1, 1}
           \/ pbc /\ {Col(i, l), Col(j, l)} = {0, l - 1}
     \/ /\ Col(i, l) = Col(j, l)
        /\ \/ Row(i, l) - Row(j, l) \in {-1, 1}
           \/ pbc /\ {Row(i, l), Row(j, l)} = {0, l - 1}

\* the number of entries of the sequence s equal to x
Occurrences(s, x) == Cardinality({k \in 1..Len(s) : s[k] = x})

\* the three parts of C8 on the lattice InitLattice built
BondsWellFormed(h) ==
  \A k \in 1..Len(h.bonds_) :
    /\ h.bonds_[k][1] < h.bonds_[k][2]
    /\ h.bonds_[k][1] \in 0..(h.nspins_ - 1)
    /\ h.bonds_[k][2] \in 0..(h.nspins_ - 1)
    /\ GridNeighbours(h.bonds_[k][1], h.bonds_[k][2], h.l_, h.pbc_)

BondsComplete(h) ==
  \A i \in 0..(h.nspins_ - 1), j \in 0..(h.nspins_ - 1) :
    (i < j /\ GridNeighbours(i, j, h.l_, h.pbc_)) => Occurrences(h.bonds_, <<i, j>>) >= 1

BondsUnique(h) ==
  \A k \in 1..Len(h.bonds_) : Occurrences(h.bonds_, h.bonds_[k]) = 1

\* C8 as claimed: every bond (i,j) of the 2D lattice has i < j, both in
\* 0..N-1, and j a grid neighbour of i; and every undirected neighbour pair is
\* in the bond list exactly once.
C8_BondsOncePerPair ==
  (pc = "ready" /\ hamiltonian_.kind = "Heisenberg2d") =>
    /\ BondsWellFormed(hamiltonian_)
    /\ BondsComplete(hamiltonian_)
    /\ BondsUnique(hamiltonian_)

\* C8 without the uniqueness on the periodic 2 x 2 lattice: kept to show
\* where the claim and the code part
C8_BondsExceptPeriodic2x2 ==
  (pc = "ready" /\ hamiltonian_.kind = "Heisenberg2d") =>
    /\ BondsWellFormed(hamiltonian_)
    /\ BondsComplete(hamiltonian_)
    /\ (hamiltonian_.pbc_ /\ hamiltonian_.l_ = 2) \/ BondsUnique(hamiltonian_)

\* the bond list FindConn walks: bonds_ for Heisenberg2d, and for
\* Heisenberg1d the pairs (i,i+1) followed, when periodic, by (N-1,0)
BondList(h) ==
  IF h.kind = "Heisenberg2d" THEN h.bonds_
  ELSE [k \in 1..(h.nspins_ - 1) |-> <<k - 1, k>>]
       \o (IF h.pbc_ THEN << <<h.nspins_ - 1, 0>> >> ELSE <<>>)

\* the bonds of a list whose two spins differ in state, in the list's order
Antiparallel(bonds, state) ==
  LET Differ(b) == state[b[1]] # state[b[2]] IN SelectSeq(bonds, Differ)

\* C9: for both Heisenberg variants FindConn returns first the empty flip set
\* with the diagonal element, then exactly one entry per bond (i,j) of the
\* bond list with state[i] # state[j], with flip set (i,j) and matrix element
\* -2 whatever Jz; bonds with equal spins give no entry; also on repeated
\* calls with the same containers.
C9_HeisenbergConn ==
  (Called /\ hamiltonian_.kind \in {"Heisenberg1d", "Heisenberg2d"}) =>
    LET bl == BondList(hamiltonian_)
        off == Antiparallel(bl, state_)
    IN /\ Len(mel_) = Len(flipsh_)
       /\ flipsh_[1] = <<>>
       /\ mel_[1] = hamiltonian_.jz_
                      * SumFrom([k \in 1..Len(bl) |-> state_[bl[k][1]] * state_[bl[k][2]]],
                                1, Len(bl))
       /\ Len(flipsh_) = 1 + Len(off)
       /\ \A k \in 1..Len(off) : flipsh_[k + 1] = off[k] /\ mel_[k + 1] = -2

\* C9 witness: a Heisenberg FindConn with Jz # 1 that returned some but not
\* all bonds, after an earlier call had returned more entries
C9_Witness ==
  /\ Called
  /\ hamiltonian_.kind = "Heisenberg2d"
  /\ hamiltonian_.jz_ = 2
  /\ hamiltonian_.nspins_ = 9
  /\ Len(flipsh_) > 1
  /\ Len(flipsh_) < 1 + Len(hamiltonian_.bonds_)

\* C10: Ising1d::FindConn returns N+1 entries: entry 0 is the empty flip set
\* with -sum_{i<N-1} state[i]*state[i+1], minus state[N-1]*state[0] when
\* periodic; entry i+1 is the flip set {i} with matrix element -hfield.
C10_IsingConn ==
  (Called /\ hamiltonian_.kind = "Ising1d") =>
    LET nsp == hamiltonian_.nspins_ IN
    /\ Len(mel_) = nsp + 1
    /\ Len(flipsh_) = nsp + 1
    /\ flipsh_[1] = <<>>
    /\ mel_[1] = 0 - SumFrom([i \in 0..(nsp - 2) |-> state_[i] * state_[i + 1]], 0, nsp - 2)
                   - (IF hamiltonian_.pbc_ THEN state_[nsp - 1] * state_[0] ELSE 0)
    /\ \A i \in 0..(nsp - 1) :
         /\ flipsh_[i + 2] = <<i>>
         /\ mel_[i + 2] = 0 - hamiltonian_.hfield_

\* C10 witness: a periodic Ising chain with a non-zero field and a
\* configuration that is not uniform
C10_Witness ==
  /\ Called
  /\ hamiltonian_.kind = "Ising1d"
  /\ hamiltonian_.pbc_
  /\ hamiltonian_.hfield_ = 3
  /\ hamiltonian_.nspins_ = 4
  /\ \E v \in DOMAIN state_ : state_[v] # state_[0]

(***************************************************************************)
(* Properties of the Nqs and of the Sampler, checked under SpecChain and   *)
(* SpecRun.                                                                *)
(***************************************************************************)

\* Run has initialized the look-up table
Sampling == pc \in {"therm", "sweep", "measure", "done"}

\* C1: after Run's InitLt and after any sequence of Move calls, every entry
\* Lt[h] equals b[h] + sum over v of state[v]*W[v][h] on the current
\* configuration.
C1_LookupTableConsistent ==
  Sampling =>
    /\ DOMAIN Lt_ = 0..(wf_.nh_ - 1)
    /\ \A h \in 0..(wf_.nh_ - 1) :
         Lt_[h] = wf_.b_[h]
                  + SumFrom([v \in 0..(wf_.nv_ - 1) |-> state_[v] * wf_.W_[v][h]],
                            0, wf_.nv_ - 1)

\* C1 witness: on four spins with site-dependent weights, 2-flip moves of
\* which some were accepted and some rejected
C1_Witness ==
  /\ Sampling
  /\ wf_ = WfMixed(4)
  /\ run.nflips = 2
  /\ accept_ >= 2
  /\ accept_ < nmoves_

\* the flip sets of one site or two distinct sites of n spins
FlipSets(n) ==
  {<<i>> : i \in 0..(n - 1)}
  \cup {F \in (0..(n - 1)) \X (0..(n - 1)) : F[1] # F[2]}

\* state with the sites of F negated
Flipped(state, F) ==
  [v \in DOMAIN state |-> IF \E k \in 1..Len(F) : F[k] = v THEN 0 - state[v] ELSE state[v]]

\* C2: on every configuration with a consistent look-up table and for every
\* flip set F of one or two distinct sites, LogPoP(state, F) computed from the
\* table equals LogVal(state') - LogVal(state), state' being state with the
\* sites of F negated.
C2_LogRatioIsDifference ==
  Sampling =>
    \A F \in FlipSets(wf_.nv_) :
      LogPoP(wf_, Lt_, state_, F) = LogVal(wf_, Flipped(state_, F)) - LogVal(wf_, state_)

\* C2 witness: after accepted moves, an effective field beyond the cut-off
\* of lncosh and a flip set whose log-ratio is not zero
C2_Witness ==
  /\ Sampling
  /\ accept_ >= 1
  /\ \E h \in DOMAIN Lt_ : Abs(Lt_[h]) > LnCoshCutoff
  /\ \E F \in FlipSets(wf_.nv_) : LogPoP(wf_, Lt_, state_, F) < 0

C4_SweepsSumToNsweeps ==
  pc = "done" =>
    /\ run.thermsweeps * ThermDen = run.nsweeps * run.thermfactor
    /\ run.meassweeps = run.nsweeps - run.thermsweeps
    /\ run.thermsweeps + run.meassweeps = run.nsweeps
    /\ energy_size = run.nsweeps - run.thermsweeps

\* what the code does instead: nsweeps measurement sweeps follow the
\* thermalization sweeps; kept to show where the claim and the code part
C4_SweepsAsCoded ==
  pc = "done" =>
    /\ run.thermsweeps * ThermDen >= run.nsweeps * run.thermfactor
    /\ (run.thermsweeps - 1) * ThermDen < run.nsweeps * run.thermfactor
    /\ run.meassweeps = run.nsweeps
    /\ energy_size = run.nsweeps

\* Run has been called
Entered ==
  pc \in {"abort_run", "initrand", "initfix", "abort_init", "therm", "sweep",
          "measure", "done", "abort_output"}

MoveStep == run'.moves = run.moves + 1

\* C11: in a Run with flip count 2, a Move changes the configuration only
\* when the two sites it drew are distinct and hold opposite spins, and after
\* every Move the configuration sums to 0 and every entry is -1 or +1.
C11_TwoFlipKeepsMagnetization ==
  [][(run.nflips = 2 /\ MoveStep) =>
       /\ state_' # state_ =>
            /\ flips_'[1] # flips_'[2]
            /\ state_[flips_'[1]] # state_[flips_'[2]]
       /\ Magnetization(state_') = 0
       /\ \A v \in DOMAIN state_' : state_'[v] \in {-1, 1}]_vars

\* C11 witness: a 2-flip Move has been accepted on four spins
C11_Witness ==
  /\ Sampling
  /\ run.nflips = 2
  /\ wf_.nv_ = 4
  /\ accept_ >= 1
  /\ Len(flips_) = 2
  /\ state_[flips_[1]] # state_[flips_[2]]

(***************************************************************************)
(* Properties of InitRandomState, checked under SpecInit and SpecInitFair. *)
(***************************************************************************)

\* state differs from before at exactly the site rs, where it was of sign sgn
FlipsOne(before, after, sgn) ==
  \E rs \in DOMAIN before :
    /\ before[rs] = sgn
    /\ after = [before EXCEPT ![rs] = 0 - sgn]

\* C12: on an even number N >= 2 of spins InitRandomState, whatever it drew,
\* comes to its end; the configuration then has N entries, each -1 or +1, of
\* sum 0; and every correction on the way negates one spin of the sign that
\* is in the majority.
C12_InitRandomStateTerminates ==
  /\ (pc = "initfix") ~> (pc = "therm")
  /\ [](pc = "therm" =>
          /\ DOMAIN state_ = 0..(wf_.nv_ - 1)
          /\ \A v \in DOMAIN state_ : state_[v] \in {-1, 1}
          /\ Magnetization(state_) = 0)
  /\ [][(pc = "initfix" /\ state_' # state_) =>
          /\ Magnetization(state_) # 0
          /\ FlipsOne(state_, state_', IF Magnetization(state_) > 0 THEN 1 ELSE -1)]_vars

\* C12 witness: InitRandomState has ended on four spins
C12_Witness ==
  /\ pc = "therm"
  /\ wf_.nv_ = 4
  /\ Magnetization(state_) = 0
  /\ nmoves_ = 0

(***************************************************************************)
(* Round trip of a flip set, checked under SpecChain.                      *)
(***************************************************************************)

\* C13: from a configuration with its consistent look-up table, UpdateLt with
\* the configuration before the flips and the negation of the sites of F,
\* done twice with the same F of one or two distinct sites, gives back the
\* configuration and every entry of the look-up table (and done once changes
\* the configuration).
C13_DoubleFlipRoundTrip ==
  Sampling =>
    \A F \in FlipSets(wf_.nv_) :
      LET Lt1 == UpdateLt(wf_, Lt_, state_, F)
          state1 == ApplyFlips(state_, F, 1)
          Lt2 == UpdateLt(wf_, Lt1, state1, F)
          state2 == ApplyFlips(state1, F, 1)
      IN /\ state1 # state_
         /\ state2 = state_
         /\ Lt2 = Lt_

\* C13 witness: after an accepted move on four spins there is a flip set of
\* two sites that changes the look-up table
C13_Witness ==
  /\ Sampling
  /\ wf_.nv_ = 4
  /\ accept_ >= 1
  /\ \E F \in FlipSets(wf_.nv_) :
       /\ Len(F) = 2
       /\ UpdateLt(wf_, Lt_, state_, F) # Lt_

(***************************************************************************)
(* Properties of OutputEnergy, checked under SpecEst.                      *)
(***************************************************************************)

\* the number of reads of energy_[j] that OutputEnergy made
ReadCount(j) ==
  Cardinality({k \in DOMAIN estimator.reads : estimator.reads[k].index = j})

\* the indices OutputEnergy added to block i
BlockIndices(i) ==
  {estimator.reads[k].index : k \in {m \in DOMAIN estimator.reads : estimator.reads[m].block = i}}

\* C14: OutputEnergy on n samples uses blocks of size b = floor(n/50); block
\* i of the 50 blocks is the b contiguous indices i*b .. (i+1)*b - 1; every
\* index below 50*b is read once, every index from 50*b on is not read, no
\* index >= n is read; and at the end of a Run b is at least 1.
C14_BlocksPartitionSamples ==
  estimator.called =>
    LET b == estimator.blocksize
        n == energy_size
    IN /\ NBlocks * b <= n
       /\ n < NBlocks * (b + 1)
       /\ \A i \in 0..(NBlocks - 1) : BlockIndices(i) = (i * b)..((i + 1) * b - 1)
       /\ \A k \in DOMAIN estimator.reads :
            /\ estimator.reads[k].block \in 0..(NBlocks - 1)
            /\ estimator.reads[k].index \in 0..(n - 1)
       /\ \A j \in 0..(n - 1) : ReadCount(j) = IF j < NBlocks * b THEN 1 ELSE 0
       /\ pc # "abort_output"
       /\ run # NoRun => b >= 1

\* C14 witness: OutputEnergy has run on 101 samples, in blocks of two with
\* the last sample left out
C14_Witness ==
  /\ estimator.called
  /\ energy_size = 2 * NBlocks + 1
  /\ estimator.blocksize = 2
  /\ Len(estimator.reads) = 2 * NBlocks

\* OutputEnergy has run at the end of a Run
C14_AfterRun ==
  /\ estimator.called
  /\ run # NoRun
  /\ pc = "done"

(***************************************************************************)
(* The counters of Move, checked under SpecChain.                          *)
(***************************************************************************)

\* the two spins a 2-flip Move drew are equal (RandSpin returns false)
EqualSpinsDrawn == run.nflips = 2 /\ state_[flips_'[1]] = state_[flips_'[2]]

\* the acceptance Move computed exceeds the value Uniform() returned
TestPassed ==
  /\ ~acceptance'.none
  /\ ~uniform'.none
  /\ ~acceptance'.zero
  /\ uniform'.zero \/ acceptance'.log > uniform'.log

\* C15: every Move adds 1 to nmoves_; it adds 1 to accept_ when the proposal
\* is accepted and leaves accept_ alone otherwise; a proposal that is not
\* accepted (the test fails, or the two spins drawn are equal) leaves the
\* configuration and the look-up table as they were; and 0 <= accept_ <=
\* nmoves_ at all times.
C15_MoveCounters ==
  /\ [](0 <= accept_ /\ accept_ <= nmoves_)
  /\ [][MoveStep =>
          /\ nmoves_' = nmoves_ + 1
          /\ EqualSpinsDrawn <=> uniform'.none
          /\ EqualSpinsDrawn => ~TestPassed
          /\ accept_' = IF TestPassed THEN accept_ + 1 ELSE accept_
          /\ ~TestPassed => (state_' = state_ /\ Lt_' = Lt_)]_vars

\* C15 witness: moves were accepted, and the last one failed the test
C15_Witness ==
  /\ Sampling
  /\ accept_ >= 1
  /\ accept_ < nmoves_
  /\ ~uniform.none
  /\ ~uniform.zero
  /\ acceptance.log <= uniform.log

(***************************************************************************)
(* The energy samples, checked under SpecChain.  energy_ is kept as its    *)
(* size and its last entry: push_back is the only operation Run and        *)
(* MeasureEnergy apply to it.                                              *)
(***************************************************************************)

\* the number of Move calls of one sweep
SweepLength == wf_.nv_ * run.sweepfactor

\* C16: the number of samples never falls and does not change during the
\* thermalization; it grows by one at a time, by MeasureEnergy at the end of
\* a sweep of the second loop, after the N*sweepfactor moves of that sweep
\* and after the line of that sweep is written when writing is enabled; the
\* sample is the local energy of the current configuration, and the
\* configuration and the look-up table stay as they are.
C16_EnergyAppendOnly ==
  /\ [](pc \in {"sweep", "measure"} =>
          /\ energy_size = run.n
          /\ nmoves_ = energy_size * SweepLength + run.i)
  /\ [][/\ energy_size' >= energy_size
        /\ pc = "therm" => energy_size' = energy_size
        /\ energy_size' # energy_size =>
             /\ energy_size' = energy_size + 1
             /\ pc = "measure"
             /\ run.i = SweepLength
             /\ nmoves_ = energy_size' * SweepLength
             /\ filestates_ = IF writestates_ THEN energy_size' ELSE 0
             /\ filestates_' = filestates_
             /\ state_' = state_
             /\ Lt_' = Lt_
             /\ Len(en') = Len(mel_')
             /\ \A k \in DOMAIN en' :
                  en'[k].logpop
                    = LogVal(wf_, Flipped(state_, flipsh_'[k])) - LogVal(wf_, state_)]_vars

\* C16 witness: two sweeps have been measured and written
C16_Witness ==
  /\ pc = "sweep"
  /\ writestates_
  /\ energy_size = 2
  /\ filestates_ = 2
  /\ accept_ >= 1

(***************************************************************************)
(* Run on an odd number of spins, checked under SpecInit.                  *)
(***************************************************************************)

\* C17: a Run that passes its input checks on an odd number of spins, with
\* whatever Hamiltonian and flip count, aborts in InitRandomState: it gets no
\* further than the draw of the configuration, the look-up table is not
\* initialized and no Move is made; on an even number InitRandomState does
\* not abort.
C17_OddSpinsAbort ==
  /\ (Entered /\ pc # "abort_run" /\ wf_.nv_ % 2 = 1) =>
       /\ pc \in {"initrand", "abort_init"}
       /\ Lt_ = <<>>
       /\ nmoves_ = 0
       /\ accept_ = 0
       /\ acceptance = NoAcceptance
       /\ energy_size = 0
  /\ pc = "abort_init" => wf_.nv_ % 2 = 1

\* C17 witness: the Ising chain of three spins, one flip at a time, has
\* aborted in InitRandomState
C17_Witness ==
  /\ pc = "abort_init"
  /\ hamiltonian_.kind = "Ising1d"
  /\ run.nflips = 1
  /\ wf_.nv_ = 3

(***************************************************************************)
(* The accept decision, checked under SpecAccept.                          *)
(***************************************************************************)

\* min(1, r) for a non-negative real kept as its logarithm
ClampToOne(r) ==
  IF ~r.zero /\ r.log > 0 THEN [none |-> FALSE, zero |-> FALSE, log |-> 0] ELSE r

\* u < p for two non-negative reals kept as logarithms
Below(u, p) ==
  IF p.zero THEN FALSE
  ELSE IF u.zero THEN TRUE
  ELSE u.log < p.log

\* C18: for an acceptance r >= 0 and a value u of Uniform() in [0,1), the
\* test of Move accepts exactly when u < min(1, r); it accepts whenever
\* r >= 1 and never when r = 0.
C18_AcceptMatchesClamped ==
  pc = "tested" =>
    /\ nmoves_ = 1
    /\ accept_ \in {0, 1}
    /\ accept_ = 1 <=> Below(uniform, ClampToOne(acceptance))
    /\ (~acceptance.zero /\ acceptance.log >= 0) => accept_ = 1
    /\ acceptance.zero => accept_ = 0

\* C18 witness: an acceptance above 1 was tested against the largest value
\* of Uniform() and accepted
C18_Witness ==
  /\ pc = "tested"
  /\ acceptance.log = Scale
  /\ ~uniform.zero
  /\ uniform.log = -1
  /\ accept_ = 1

====
